---- MODULE Spec2Model ----
(***************************************************************************)
(* Proximity alarm and fall-detection controller                           *)
(* (firmware/projects/examen/main/examen.c).                               *)
(*                                                                         *)
(* Four FreeRTOS tasks are created by app_main: SensarTask (ranging),      *)
(* LedsTask (alarm/actuation), SendData (status report) and ADC_Conversion *)
(* (sampling / fall detection).  SendData and ADC_Conversion block in      *)
(* ulTaskNotifyTake and are released by the timer callback                 *)
(* FuncTimerSendData.  BuzzerTask is defined in the file but app_main      *)
(* never creates it, so no step of it exists in any behaviour.             *)
(*                                                                         *)
(* Distances are centimetres held in a float that only ever receives the   *)
(* uint16_t result of HcSr04ReadDistanceInCentimeters, so they are modelled*)
(* as integers; the comparisons against 300 and 500 are exact.             *)
(***************************************************************************)
EXTENDS Integers, Sequences, FiniteSets

(***************************************************************************)
(* Bounds of the model.                                                    *)
(***************************************************************************)
\* largest number of timer signals left pending for one task
MaxNotify == 2

\* consecutive qualifying ADC wakes that are counted
MaxStreak == 2

\* distance readings the sensor driver returns (0 is the timeout sentinel)
Distances == {0, 200, 299, 300, 400, 500, 501, 600}

\* raw readings the analog driver returns for one channel (uint16_t)
Raw == {400, 401, 2450, 65535}

\* values HcSr04ReadDistanceInCentimeters returns in recuperatorio.c (uint16_t)
RecDistances == {0, 20, 50, 100, 999, 1000, 65535}

\* the three distance-meter images
MeterPrograms == {"guia2_ej1", "guia2_ej2", "guia2_ej3"}

\* values HcSr04ReadDistanceInCentimeters returns in the distance meters
MeterDistances == {5, 10, 15, 20, 25, 30, 35, 120}

\* arguments data (uint32_t) and digits (uint8_t) of convertToBcdArray;
\* data stays below 2^31, the largest integer the model checker handles
BcdData == {0, 7, 10, 123, 999, 1000, 65535, 2147483647}
BcdDigits == {0, 1, 3, 4, 10, 11, 255}

\* what the caller's array holds in every entry before the call
BcdFill == {0, 255}

\* bytes that arrive on UART_PC: the commands and some unrecognised ones
Bytes == {"O", "H", "C", "X", "o"}

\* received bytes the UART holds
MaxRx == 3
\* changes of a flag counted within one key press (the count saturates)
MaxFlips == 2

(***************************************************************************)
(* Program constants.                                                      *)
(***************************************************************************)
\* if(distancia > 500)
UpperThreshold == 500
\* (distancia>300) / (distancia<300)
LowerThreshold == 300
\* if(value1+value2+value3 > 1200)
FallTrigger == 1200

\* recuperatorio.c: range limit of the speed warning (cm), the speed limit
\* LedsTask compares with, and the number of samples of the weight average
RangeLimit == 1000
SpeedLimit == 800
MaxMuestras == 50

\* #define CONFIG_PERIOD_500 500
CONFIG_PERIOD_500 == 500
\* #define CONFIG_PERIOD_1000 10
CONFIG_PERIOD_1000 == 10

\* the LCD is off (LcdItsE0803Off, or never written)
LcdBlank == 0 - 1

\* entries of the array a caller hands to convertToBcdArray
BcdLen == 11

\* leds_d before the first LedsTask cycle
NoCycle == 0 - 1

\* m_d when the reads of a display cycle did not all see the same distance
Torn == 0 - 2

\* the lines sent over the UART (accented letters written without accent)
AlertLine == "Caida detectada.\r\n"
CautionLine == "Precaucion, vehiculo cerca.\r\n"
DangerLine == "Peligro, vehiculo cerca.\r\n"

VARIABLES
    activar,        \* bool activar: the system enable flag
    distancia,      \* float distancia: last distance sample, in cm
    value1,         \* uint16_t value1: last raw reading of channel 1
    value2,         \* uint16_t value2
    value3,         \* uint16_t value3
    LED_1,          \* green LED
    LED_2,          \* yellow LED
    LED_3,          \* red LED
    GPIO_0,         \* actuator line
    buzzer,         \* buzzer output (BuzzerOn / BuzzerOff)
    timer_started,  \* TIMER_A is counting
    notify_send,    \* notification value of the SendData task
    notify_adc,     \* notification value of the ADC_Conversion task
    send_pc,        \* "take": in ulTaskNotifyTake, "body": after it returned
    adc_pc,         \* same for ADC_Conversion
    adc_took,       \* value returned by ADC_Conversion's last ulTaskNotifyTake
    uart_send,      \* lines SendData sent in its latest cycle
    uart_adc,       \* lines ADC_Conversion sent in its latest cycle
    leds_en,        \* activar as read by the latest LedsTask cycle
    leds_d,         \* distancia at the latest LedsTask cycle, NoCycle before it
    leds_prev,      \* << en, d, outputs >> of the two cycles before the latest
    bz_gpio,        \* GPIORead(GPIO_0) in the latest BuzzerTask iteration
    bz_d,           \* distancia at the latest BuzzerTask iteration
    bz_delay,       \* ms the latest BuzzerTask iteration blocked, 0 before it
    rec_activar,    \* recuperatorio.c: bool activar
    distancia_actual, \* recuperatorio.c: uint16_t distancia_actual
    boot_prog,      \* the firmware image whose app_main is running
    boot_pc,        \* index of the next statement of that app_main
    boot_handles,   \* task handles that are no longer NULL
    boot_run,       \* timers that have been started
    boot_pending,   \* notification value of each created task
    boot_null,      \* a callback has notified a NULL handle
    cont_ecg,       \* guia2_ej4.c: uint8_t cont_ecg
    adc_streak,     \* consecutive ADC cycles so far whose sum qualified
    adc_alerts,     \* alert lines sent during those cycles
    m_prog,         \* the distance-meter image: guia2_ej1, guia2_ej2, guia2_ej3
    m_activar,      \* its bool activar
    m_hold,         \* its bool hold
    m_distancia,    \* its distancia
    m_leds,         \* its << LED_1, LED_2, LED_3 >>
    m_lcd,          \* the number its LCD shows, LcdBlank when off
    m_uart,         \* characters guia2_ej3 sent in its latest display cycle
    m_en,           \* activar as read by the latest display cycle
    m_hd,           \* hold as read by the latest display cycle
    m_d,            \* distance the current or latest display cycle read,
                    \* NoCycle before the first cycle, Torn when the ranging
                    \* task changed distancia between two of its reads
    m_wrote,        \* the latest display cycle called LcdItsE0803Write
    m_byte,         \* byte TeclasOnHold read last, "" before the first
    m_pc,           \* display task of guia2_ej1 and guia2_ej3, read by read:
                    \* "idle" between cycles, else the read it is about to
                    \* make ("a1", "a2", "b1", "b2", "c", "lcd", "uart")
    m_bit,          \* result of the left operand of the & being evaluated
    m_notify,       \* guia2_ej3: the tasks ("Sensar", "Mostrar") that have a
                    \* notification pending
    m_run,          \* guia2_ej3: the timers ("A", "B") that have been started
    rec_gpio1,      \* recuperatorio.c: barrier output GPIO_1
    rec_rx,         \* recuperatorio.c: bytes that arrived on UART_PC
    rec_byte,       \* byte ControlBarrera read last, "" before the first
    bcd_data,       \* convertToBcdArray: argument data of the latest call
    bcd_digits,     \* argument digits of the latest call
    bcd_before,     \* caller's array before the latest call
    bcd_number,     \* caller's array after the latest call
    bcd_ret,        \* value the latest call returned
    bcd_called,     \* convertToBcdArray has been called
    race_pc,        \* examen.c LedsTask, comparison by comparison: "idle"
                    \* between cycles, else the comparison it is about to make
    race_lt,        \* result of distancia<500 in the current cycle
    race_en,        \* activar as read by the current or latest such cycle
    race_start,     \* << LED_1, LED_2, LED_3, GPIO_0 >> when that cycle began
    race_held,      \* values distancia has held since that cycle began
    race_done,      \* such a cycle has completed
    distancia_anterior, \* recuperatorio.c: uint16_t distancia_anterior
    cont_muestras,  \* recuperatorio.c: uint8_t cont_muestras
    rec_leds,       \* recuperatorio.c: << LED_1, LED_2, LED_3 >>
    rec_pc,         \* recuperatorio.c LedsTask: "check", "compute", "store"
    rec_used,       \* distancia_actual used for the velocity of the current
                    \* or latest cycle, NoCycle when it computed none
    rec_vel,        \* that velocity
    rec_div,        \* cont_muestras at the latest division, NoCycle if none
    rec_weighed,    \* the current or latest cycle reported the weight
    key1,           \* guia2_ej1: TEC1 is held down
    key2,           \* guia2_ej1: TEC2 is held down
    key_flips1,     \* changes of activar during the current press of TEC1
    key_flips2      \* changes of hold during the current press of TEC2

vars == << activar, distancia, value1, value2, value3, LED_1, LED_2, LED_3,
           GPIO_0, buzzer, timer_started, notify_send, notify_adc, send_pc,
           adc_pc, adc_took, uart_send, uart_adc, leds_en, leds_d, leds_prev,
           bz_gpio, bz_d, bz_delay, rec_activar, distancia_actual,
           boot_prog, boot_pc, boot_handles, boot_run, boot_pending,
           boot_null, cont_ecg, adc_streak, adc_alerts,
           m_prog, m_activar, m_hold, m_distancia, m_leds, m_lcd, m_uart,
           m_en, m_hd, m_d, m_wrote, m_byte, m_pc, m_bit, m_notify, m_run,
           rec_gpio1, rec_rx, rec_byte,
           bcd_data, bcd_digits, bcd_before, bcd_number, bcd_ret,
           bcd_called, race_pc, race_lt, race_en, race_start, race_held,
           race_done, distancia_anterior, cont_muestras, rec_leds, rec_pc,
           rec_used, rec_vel, rec_div, rec_weighed, key1, key2, key_flips1,
           key_flips2 >>

outputs == << LED_1, LED_2, LED_3, GPIO_0 >>
samplingVars == << value1, value2, value3, timer_started, notify_send,
                   notify_adc, send_pc, adc_pc, adc_took, uart_send, uart_adc >>
alarmVars == << LED_1, LED_2, LED_3, GPIO_0, leds_en, leds_d, leds_prev >>
buzzerVars == << bz_gpio, bz_d, bz_delay >>
recVars == << rec_activar, distancia_actual >>
bootVars == << boot_prog, boot_pc, boot_handles, boot_run, boot_pending,
               boot_null, cont_ecg >>
adcHist == << adc_streak, adc_alerts >>

meterVars == << m_prog, m_activar, m_hold, m_distancia, m_leds, m_lcd,
                m_uart, m_en, m_hd, m_d, m_wrote, m_byte, m_pc, m_bit,
                m_notify, m_run >>
barrierVars == << rec_gpio1, rec_rx, rec_byte >>
bcdVars == << bcd_data, bcd_digits, bcd_before, bcd_number, bcd_ret,
              bcd_called >>
raceVars == << race_pc, race_lt, race_en, race_start, race_held, race_done >>
weighVars == << distancia_anterior, cont_muestras, rec_leds, rec_pc, rec_used,
                rec_vel, rec_div, rec_weighed >>
keyVars == << key1, key2, key_flips1, key_flips2 >>
lateVars == << raceVars, weighVars, keyVars >>
auxVars == << meterVars, barrierVars, bcdVars, lateVars >>

otherVars == << buzzerVars, recVars, bootVars, adcHist, auxVars >>

examenAll == << activar, distancia, buzzer, alarmVars, samplingVars,
                buzzerVars, recVars, bootVars, adcHist, lateVars >>

(***************************************************************************)
(* app_main of the five images that install a task-notifying timer         *)
(* callback, reduced to the statements that initialise or start a timer or *)
(* create a task, in source order.  Notified(prog, t) is the set of tasks  *)
(* the callback of timer t notifies with vTaskNotifyGiveFromISR.           *)
(***************************************************************************)
Programs ==
    {"examen", "guia2_ej2", "guia2_ej3", "guia2_ej4", "recuperatorio"}

\* an order that starts the timer before the task is created
AppMain_StartFirst(prog) ==
    IF prog = "examen"
      THEN << << "TimerInit", "A" >>,
              << "xTaskCreate", "sensar" >>,
              << "xTaskCreate", "leds" >>,
              << "xTaskCreate", "send_data" >>,
              << "xTaskCreate", "adc_conversion" >> >>
    ELSE IF prog = "guia2_ej2"
      THEN << << "TimerInit", "A" >>,
              << "TimerStart", "A" >>,
              << "xTaskCreate", "operar_distancia" >> >>
    ELSE IF prog = "guia2_ej3"
      THEN << << "TimerInit", "A" >>,
              << "TimerInit", "B" >>,
              << "xTaskCreate", "Sensar" >>,
              << "xTaskCreate", "Mostrar" >> >>
    ELSE IF prog = "recuperatorio"
      THEN << << "TimerInit", "A" >>,
              << "xTaskCreate", "medir" >>,
              << "xTaskCreate", "leds" >>,
              << "xTaskCreate", "adc_conversion" >> >>
    ELSE << << "TimerInit", "A" >>,
            << "TimerInit", "B" >>,
            << "xTaskCreate", "send_data" >>,
            << "xTaskCreate", "adc_conversion" >>,
            << "xTaskCreate", "dac_conversion" >>,
            << "TimerStart", "A" >>,
            << "TimerStart", "B" >> >>

AppMain(prog) ==
    IF prog = "examen"
      THEN << << "TimerInit", "A" >>,
              << "xTaskCreate", "sensar" >>,
              << "xTaskCreate", "leds" >>,
              << "xTaskCreate", "send_data" >>,
              << "xTaskCreate", "adc_conversion" >> >>
    ELSE IF prog = "guia2_ej2"
      THEN << << "TimerInit", "A" >>,
              << "xTaskCreate", "operar_distancia" >>,
              << "TimerStart", "A" >> >>
    ELSE IF prog = "guia2_ej3"
      THEN << << "TimerInit", "A" >>,
              << "TimerInit", "B" >>,
              << "xTaskCreate", "Sensar" >>,
              << "xTaskCreate", "Mostrar" >> >>
    ELSE IF prog = "recuperatorio"
      THEN << << "TimerInit", "A" >>,
              << "xTaskCreate", "medir" >>,
              << "xTaskCreate", "leds" >>,
              << "xTaskCreate", "adc_conversion" >> >>
    ELSE << << "TimerInit", "A" >>,
            << "TimerInit", "B" >>,
            << "xTaskCreate", "send_data" >>,
            << "xTaskCreate", "adc_conversion" >>,
            << "xTaskCreate", "dac_conversion" >>,
            << "TimerStart", "A" >>,
            << "TimerStart", "B" >> >>

Notified(prog, t) ==
    IF prog = "examen" /\ t = "A"
      THEN {"send_data", "adc_conversion"}
    ELSE IF prog = "guia2_ej2" /\ t = "A"
      THEN {"operar_distancia"}
    ELSE IF prog = "guia2_ej3" /\ t = "A"
      THEN {"Sensar"}
    ELSE IF prog = "guia2_ej3" /\ t = "B"
      THEN {"Mostrar"}
    ELSE IF prog = "guia2_ej4" /\ t = "A"
      THEN {"adc_conversion", "send_data"}
    ELSE IF prog = "recuperatorio" /\ t = "A"
      THEN {"adc_conversion"}
    ELSE {}

\* the tasks app_main of prog creates
Created(prog) ==
    { AppMain(prog)[i][2] :
        i \in { j \in 1..Len(AppMain(prog)) :
                  AppMain(prog)[j][1] = "xTaskCreate" } }

\* the tasks that wait in ulTaskNotifyTake
Takers(prog) ==
    IF prog = "examen"
      THEN {"send_data", "adc_conversion"}
    ELSE IF prog = "guia2_ej2"
      THEN {"operar_distancia"}
    ELSE IF prog = "guia2_ej3"
      THEN {"Sensar", "Mostrar"}
    ELSE IF prog = "recuperatorio"
      THEN {"adc_conversion"}
    ELSE {"send_data", "adc_conversion", "dac_conversion"}

(***************************************************************************)
(* State after app_main: globals at their initialisers, LedsInit and       *)
(* GPIOInit/BuzzerInit leave every output low, TimerInit configures the    *)
(* timer (TimerStart is never called), the four tasks exist and the two    *)
(* notified ones are blocked in ulTaskNotifyTake.                          *)
(***************************************************************************)
Globals ==
    /\ activar = TRUE
    /\ distancia = 0
    /\ value1 = 0
    /\ value2 = 0
    /\ value3 = 0
    /\ LED_1 = FALSE
    /\ LED_2 = FALSE
    /\ LED_3 = FALSE
    /\ GPIO_0 = FALSE
    /\ buzzer = FALSE
    /\ timer_started = FALSE
    /\ notify_send = 0
    /\ notify_adc = 0
    /\ send_pc = "take"
    /\ adc_pc = "take"
    /\ adc_took = 0
    /\ uart_send = << >>
    /\ uart_adc = << >>
    /\ leds_en = TRUE
    /\ leds_d = NoCycle
    /\ leds_prev = << >>
    /\ bz_gpio = FALSE
    /\ bz_d = 0
    /\ bz_delay = 0
    /\ rec_activar = TRUE
    /\ distancia_actual = 0
    /\ cont_ecg = 0
    /\ adc_streak = 0
    /\ adc_alerts = 0
    /\ m_activar = TRUE
    /\ m_hold = FALSE
    /\ m_distancia = 0
    /\ m_leds = << FALSE, FALSE, FALSE >>
    /\ m_lcd = LcdBlank
    /\ m_uart = << >>
    /\ m_en = TRUE
    /\ m_hd = FALSE
    /\ m_d = NoCycle
    /\ m_wrote = FALSE
    /\ m_byte = ""
    /\ m_pc = "idle"
    /\ m_bit = FALSE
    /\ m_notify = {}
    /\ m_run = {}
    /\ rec_gpio1 = FALSE
    /\ rec_rx = << >>
    /\ rec_byte = ""
    /\ bcd_data = 0
    /\ bcd_digits = 0
    /\ bcd_before = [i \in 1..BcdLen |-> 0]
    /\ bcd_number = [i \in 1..BcdLen |-> 0]
    /\ bcd_ret = 0
    /\ bcd_called = FALSE
    /\ race_pc = "idle"
    /\ race_lt = FALSE
    /\ race_en = TRUE
    /\ race_start = << FALSE, FALSE, FALSE, FALSE >>
    /\ race_held = {}
    /\ race_done = FALSE
    /\ distancia_anterior = 100
    /\ cont_muestras = 0
    /\ rec_leds = << FALSE, FALSE, FALSE >>
    /\ rec_pc = "check"
    /\ rec_used = NoCycle
    /\ rec_vel = 0
    /\ rec_div = NoCycle
    /\ rec_weighed = FALSE
    /\ key1 = FALSE
    /\ key2 = FALSE
    /\ key_flips1 = 0
    /\ key_flips2 = 0

Init ==
    /\ Globals
    /\ m_prog = "guia2_ej1"
    /\ boot_prog = "examen"
    /\ boot_pc = Len(AppMain("examen")) + 1
    /\ boot_handles = Created("examen")
    /\ boot_run = {}
    /\ boot_pending = [h \in Created("examen") |-> 0]
    /\ boot_null = FALSE

(***************************************************************************)
(* SensarTask: one iteration of the ranging loop.                          *)
(***************************************************************************)
\* SensarTask without the test of activar
SensarTask_Ungated ==
    /\ \E d \in Distances : distancia' = d
    /\ race_held' = IF race_pc = "idle" THEN race_held
                     ELSE race_held \cup {distancia'}
    /\ UNCHANGED << activar, buzzer >>
    /\ UNCHANGED alarmVars
    /\ UNCHANGED samplingVars
    /\ UNCHANGED << buzzerVars, recVars, bootVars, adcHist, meterVars,
                    barrierVars, bcdVars, weighVars, keyVars >>
    /\ UNCHANGED << race_pc, race_lt, race_en, race_start, race_done >>

SensarTask ==
    /\ IF activar
         THEN \E d \in Distances : distancia' = d
         ELSE UNCHANGED distancia
    /\ race_held' = IF race_pc = "idle" THEN race_held
                     ELSE race_held \cup {distancia'}
    /\ UNCHANGED << activar, buzzer >>
    /\ UNCHANGED alarmVars
    /\ UNCHANGED samplingVars
    /\ UNCHANGED << buzzerVars, recVars, bootVars, adcHist, meterVars,
                    barrierVars, bcdVars, weighVars, keyVars >>
    /\ UNCHANGED << race_pc, race_lt, race_en, race_start, race_done >>

(***************************************************************************)
(* MedirTask: one iteration of the ranging loop of recuperatorio.c, with   *)
(* the same gate on that program's own activar flag.                       *)
(***************************************************************************)
MedirTask ==
    /\ IF rec_activar
         THEN \E d \in RecDistances : distancia_actual' = d
         ELSE UNCHANGED distancia_actual
    /\ UNCHANGED rec_activar
    /\ UNCHANGED << activar, distancia, buzzer >>
    /\ UNCHANGED alarmVars
    /\ UNCHANGED samplingVars
    /\ UNCHANGED << buzzerVars, bootVars, adcHist, auxVars >>

(***************************************************************************)
(* LedsTask: one iteration of the alarm loop.  LedsOutputs is the state of *)
(* << LED_1, LED_2, LED_3, GPIO_0 >> the iteration leaves, given the       *)
(* values it reads and the state prev it found.                            *)
(***************************************************************************)
\* LedsOutputs without the GPIOOff(GPIO_0) of the first branch
LedsOutputs_NoGpioOff(en, d, prev) ==
    IF en
      THEN IF d > UpperThreshold
             THEN << TRUE, FALSE, FALSE, prev[4] >>
           ELSE IF (d < UpperThreshold) /\ (d > LowerThreshold)
             THEN << TRUE, TRUE, FALSE, TRUE >>
           ELSE IF d < LowerThreshold
             THEN << TRUE, TRUE, TRUE, TRUE >>
           ELSE prev
      ELSE << FALSE, FALSE, FALSE, prev[4] >>

LedsOutputs(en, d, prev) ==
    IF en
      THEN IF d > UpperThreshold
             THEN << TRUE, FALSE, FALSE, FALSE >>
           ELSE IF (d < UpperThreshold) /\ (d > LowerThreshold)
             THEN << TRUE, TRUE, FALSE, TRUE >>
           ELSE IF d < LowerThreshold
             THEN << TRUE, TRUE, TRUE, TRUE >>
           ELSE prev
      ELSE << FALSE, FALSE, FALSE, prev[4] >>

LedsTask ==
    /\ LET o == LedsOutputs(activar, distancia, outputs)
       IN  /\ LED_1' = o[1]
           /\ LED_2' = o[2]
           /\ LED_3' = o[3]
           /\ GPIO_0' = o[4]
    /\ leds_en' = activar
    /\ leds_d' = distancia
    /\ leds_prev' = IF leds_d = NoCycle
                      THEN << >>
                    ELSE IF Len(leds_prev) < 2
                      THEN Append(leds_prev, << leds_en, leds_d, outputs >>)
                    ELSE << leds_prev[2], << leds_en, leds_d, outputs >> >>
    /\ UNCHANGED << activar, distancia, buzzer >>
    /\ UNCHANGED samplingVars
    /\ UNCHANGED otherVars

(***************************************************************************)
(* BuzzerTask: one iteration of the buzzer loop.  BuzzerDelay is the time  *)
(* in ms the iteration spends in vTaskDelay.  The function never calls     *)
(* BuzzerOff, and app_main never creates the task: its steps appear only   *)
(* in SpecBuzzer, which applies the function to the states the ranging and *)
(* alarm tasks produce.                                                    *)
(***************************************************************************)
BuzzerDelay(gpio, d) ==
    (IF gpio
       THEN IF (d > LowerThreshold) /\ (d < UpperThreshold)
              THEN CONFIG_PERIOD_1000
            ELSE IF d < LowerThreshold
              THEN CONFIG_PERIOD_500
            ELSE 0
       ELSE 0)
    + CONFIG_PERIOD_500

BuzzerTask ==
    /\ bz_gpio' = GPIO_0
    /\ bz_d' = distancia
    /\ buzzer' = (buzzer \/ GPIO_0)
    /\ bz_delay' = BuzzerDelay(GPIO_0, distancia)
    /\ UNCHANGED << activar, distancia >>
    /\ UNCHANGED alarmVars
    /\ UNCHANGED samplingVars
    /\ UNCHANGED << recVars, bootVars, adcHist, auxVars >>

(***************************************************************************)
(* External collaborators.  ToggleActivar is the asynchronous control      *)
(* input that flips the enable flag; TimerStart is the timer driver's      *)
(* start operation.  Neither is called by examen.c itself.                 *)
(***************************************************************************)
ToggleActivar ==
    /\ activar' = ~activar
    /\ UNCHANGED << distancia, buzzer >>
    /\ UNCHANGED alarmVars
    /\ UNCHANGED samplingVars
    /\ UNCHANGED otherVars

\* the same control input for the activar flag of recuperatorio.c
RecToggleActivar ==
    /\ rec_activar' = ~rec_activar
    /\ UNCHANGED distancia_actual
    /\ UNCHANGED << activar, distancia, buzzer >>
    /\ UNCHANGED alarmVars
    /\ UNCHANGED samplingVars
    /\ UNCHANGED << buzzerVars, bootVars, adcHist, auxVars >>

TimerStart ==
    /\ ~timer_started
    /\ timer_started' = TRUE
    /\ UNCHANGED << activar, distancia, buzzer, value1, value2, value3,
                    notify_send, notify_adc, send_pc, adc_pc, adc_took,
                    uart_send, uart_adc >>
    /\ UNCHANGED alarmVars
    /\ UNCHANGED otherVars

(***************************************************************************)
(* FreeRTOS direct-to-task notifications used as a counting semaphore.     *)
(* NotifyGive: vTaskNotifyGiveFromISR increments the notification value.   *)
(* NotifyTake: ulTaskNotifyTake(pdTRUE, portMAX_DELAY) returns once the    *)
(* value is non-zero and, xClearCountOnExit being pdTRUE, leaves it 0.     *)
(***************************************************************************)
NotifyGive(n) == n + 1

\* ulTaskNotifyTake(pdFALSE, ...): the value is decremented, not cleared
NotifyTake_Decrement(n) == n - 1

NotifyTake(n) == 0

(***************************************************************************)
(* FuncTimerSendData: the timer callback, run in interrupt context each    *)
(* time the started timer elapses.                                         *)
(***************************************************************************)
\* a callback that signals ADC_Conversion only while it is waiting
FuncTimerSendData_OnlyIfWaiting ==
    /\ timer_started
    /\ notify_send < MaxNotify
    /\ notify_adc < MaxNotify
    /\ notify_send' = NotifyGive(notify_send)
    /\ notify_adc' = IF adc_pc = "take"
                       THEN NotifyGive(notify_adc)
                       ELSE notify_adc
    /\ UNCHANGED << activar, distancia, buzzer, value1, value2, value3,
                    timer_started, send_pc, adc_pc, adc_took, uart_send,
                    uart_adc >>
    /\ UNCHANGED alarmVars
    /\ UNCHANGED otherVars

FuncTimerSendData ==
    /\ timer_started
    /\ notify_send < MaxNotify
    /\ notify_adc < MaxNotify
    /\ notify_send' = NotifyGive(notify_send)
    /\ notify_adc' = NotifyGive(notify_adc)
    /\ UNCHANGED << activar, distancia, buzzer, value1, value2, value3,
                    timer_started, send_pc, adc_pc, adc_took, uart_send,
                    uart_adc >>
    /\ UNCHANGED alarmVars
    /\ UNCHANGED otherVars

(***************************************************************************)
(* SendData: ulTaskNotifyTake returns (SendDataTake), then the status line *)
(* for the current distance is sent (SendDataBody).                        *)
(***************************************************************************)
StatusLines(d) ==
    IF (d < UpperThreshold) /\ (d > LowerThreshold)
      THEN << CautionLine >>
    ELSE IF d < LowerThreshold
      THEN << DangerLine >>
    ELSE << >>

SendDataTake ==
    /\ send_pc = "take"
    /\ notify_send > 0
    /\ notify_send' = NotifyTake(notify_send)
    /\ send_pc' = "body"
    /\ UNCHANGED << activar, distancia, buzzer, value1, value2, value3,
                    timer_started, notify_adc, adc_pc, adc_took, uart_send,
                    uart_adc >>
    /\ UNCHANGED alarmVars
    /\ UNCHANGED otherVars

SendDataBody ==
    /\ send_pc = "body"
    /\ uart_send' = StatusLines(distancia)
    /\ send_pc' = "take"
    /\ UNCHANGED << activar, distancia, buzzer, value1, value2, value3,
                    timer_started, notify_send, notify_adc, adc_pc, adc_took,
                    uart_adc >>
    /\ UNCHANGED alarmVars
    /\ UNCHANGED otherVars

(***************************************************************************)
(* ADC_Conversion: ulTaskNotifyTake returns (ADC_ConversionTake), then the *)
(* three channels are read and the fall test is made (ADC_ConversionBody). *)
(* The operands are uint16_t and are promoted to the 32-bit int before the *)
(* additions, so the sum of three readings (at most 3 * 65535 = 196605) is *)
(* the mathematical sum.                                                   *)
(***************************************************************************)
\* the sum accumulated in a uint16_t
Sum3_Uint16(a, b, c) == (a + b + c) % 65536

Sum3(a, b, c) == a + b + c

FallDetected(a, b, c) == Sum3(a, b, c) > FallTrigger

ADC_ConversionTake ==
    /\ adc_pc = "take"
    /\ notify_adc > 0
    /\ adc_took' = notify_adc
    /\ notify_adc' = NotifyTake(notify_adc)
    /\ adc_pc' = "body"
    /\ UNCHANGED << activar, distancia, buzzer, value1, value2, value3,
                    timer_started, notify_send, send_pc, uart_send, uart_adc >>
    /\ UNCHANGED alarmVars
    /\ UNCHANGED otherVars

\* the lines one ADC_Conversion cycle sends after reading a, b, c
\* (prev: the lines of the cycle before; the alert does not depend on it)
AlertLines_Debounced(a, b, c, prev) ==
    IF FallDetected(a, b, c) /\ prev = << >> THEN << AlertLine >> ELSE << >>

AlertLines(a, b, c, prev) ==
    IF FallDetected(a, b, c) THEN << AlertLine >> ELSE << >>

Bump(n) == IF n < MaxStreak THEN n + 1 ELSE n

\* an ADC_Conversion cycle that also drives the actuator line on an alert
ADC_ConversionBody_DrivesGpio ==
    /\ adc_pc = "body"
    /\ \E r1 \in Raw, r2 \in Raw, r3 \in Raw :
          /\ value1' = r1
          /\ value2' = r2
          /\ value3' = r3
          /\ uart_adc' = AlertLines(r1, r2, r3, uart_adc)
          /\ GPIO_0' = (GPIO_0 \/ FallDetected(r1, r2, r3))
          /\ adc_streak' = IF r1 + r2 + r3 > FallTrigger
                             THEN Bump(adc_streak) ELSE 0
          /\ adc_alerts' = IF r1 + r2 + r3 > FallTrigger
                             THEN IF Len(uart_adc') = 1
                                    THEN Bump(adc_alerts) ELSE adc_alerts
                             ELSE 0
    /\ adc_pc' = "take"
    /\ UNCHANGED << activar, distancia, buzzer, timer_started, notify_send,
                    notify_adc, send_pc, adc_took, uart_send >>
    /\ UNCHANGED << LED_1, LED_2, LED_3, leds_en, leds_d, leds_prev >>
    /\ UNCHANGED << buzzerVars, recVars, bootVars, auxVars >>

ADC_ConversionBody ==
    /\ adc_pc = "body"
    /\ \E r1 \in Raw, r2 \in Raw, r3 \in Raw :
          /\ value1' = r1
          /\ value2' = r2
          /\ value3' = r3
          /\ uart_adc' = AlertLines(r1, r2, r3, uart_adc)
          /\ adc_streak' = IF r1 + r2 + r3 > FallTrigger
                             THEN Bump(adc_streak) ELSE 0
          /\ adc_alerts' = IF r1 + r2 + r3 > FallTrigger
                             THEN IF Len(uart_adc') = 1
                                    THEN Bump(adc_alerts) ELSE adc_alerts
                             ELSE 0
    /\ adc_pc' = "take"
    /\ UNCHANGED << activar, distancia, buzzer, timer_started, notify_send,
                    notify_adc, send_pc, adc_took, uart_send >>
    /\ UNCHANGED alarmVars
    /\ UNCHANGED << buzzerVars, recVars, bootVars, auxVars >>

(***************************************************************************)
(* Start-up of an image.  BootStep executes the next statement of          *)
(* app_main; BootTimerFires is the callback of a started timer, which may  *)
(* interrupt app_main anywhere; BootTaskTake is a created task returning   *)
(* from ulTaskNotifyTake.  In guia2_ej4 the callback of timer B advances   *)
(* cont_ecg through the ECG buffer.                                        *)
(***************************************************************************)
BUFFER_SIZE == 231

BootInit ==
    /\ Globals
    /\ m_prog = "guia2_ej1"
    /\ boot_prog \in Programs
    /\ boot_pc = 1
    /\ boot_handles = {}
    /\ boot_run = {}
    /\ boot_pending = [h \in Created(boot_prog) |-> 0]
    /\ boot_null = FALSE

examenVars == << activar, distancia, buzzer, alarmVars, samplingVars,
                 buzzerVars, recVars, adcHist, auxVars >>

BootStep ==
    /\ boot_pc <= Len(AppMain(boot_prog))
    /\ LET st == AppMain(boot_prog)[boot_pc]
       IN  /\ boot_handles' = IF st[1] = "xTaskCreate"
                                THEN boot_handles \cup {st[2]}
                                ELSE boot_handles
           /\ boot_run' = IF st[1] = "TimerStart"
                            THEN boot_run \cup {st[2]}
                            ELSE boot_run
    /\ boot_pc' = boot_pc + 1
    /\ UNCHANGED << boot_prog, boot_pending, boot_null, cont_ecg >>
    /\ UNCHANGED examenVars

BootTimerFires ==
    \E t \in boot_run :
        /\ \A h \in Notified(boot_prog, t) \cap boot_handles :
              boot_pending[h] < MaxNotify
        /\ boot_pending' =
              [h \in DOMAIN boot_pending |->
                  IF h \in Notified(boot_prog, t) \cap boot_handles
                    THEN NotifyGive(boot_pending[h])
                    ELSE boot_pending[h]]
        /\ boot_null' =
              (boot_null \/ ~(Notified(boot_prog, t) \subseteq boot_handles))
        /\ cont_ecg' = IF boot_prog = "guia2_ej4" /\ t = "B"
                         THEN IF cont_ecg < BUFFER_SIZE - 1
                                THEN cont_ecg + 1
                                ELSE 0
                         ELSE cont_ecg
        /\ UNCHANGED << boot_prog, boot_pc, boot_handles, boot_run >>
        /\ UNCHANGED examenVars

BootTaskTake ==
    \E h \in Takers(boot_prog) \cap boot_handles :
        /\ boot_pending[h] > 0
        /\ boot_pending' = [boot_pending EXCEPT ![h] = NotifyTake(@)]
        /\ UNCHANGED << boot_prog, boot_pc, boot_handles, boot_run,
                        boot_null, cont_ecg >>
        /\ UNCHANGED examenVars

(***************************************************************************)
(* Specifications.                                                         *)
(*  SpecAppMain  the closed system app_main leaves: the timer is never     *)
(*               started and nothing writes activar, so only the two       *)
(*               periodic tasks ever run.                                  *)
(*  Spec         the ranging and alarm tasks with the external enable      *)
(*               toggle.                                                   *)
(*  SpecTimer    the timer callback and the two tasks it notifies, once    *)
(*               the timer driver has been started.  The four tasks have   *)
(*               the same priority (4) and FreeRTOS time-slices ready      *)
(*               tasks of equal priority, so FairTimer lets every task     *)
(*               that stays ready run.                                     *)
(*  SpecSampling SpecTimer with the ranging task supplying distances.      *)
(***************************************************************************)
NextAppMain == SensarTask \/ LedsTask

SpecAppMain == Init /\ [][NextAppMain]_vars

FairAppMain ==
    /\ SpecAppMain
    /\ WF_vars(SensarTask)
    /\ WF_vars(LedsTask)

Next == SensarTask \/ LedsTask \/ ToggleActivar

Spec == Init /\ [][Next]_vars

NextTimer ==
    \/ TimerStart
    \/ FuncTimerSendData
    \/ SendDataTake
    \/ SendDataBody
    \/ ADC_ConversionTake
    \/ ADC_ConversionBody

SpecTimer == Init /\ [][NextTimer]_vars

FairTimer ==
    /\ SpecTimer
    /\ WF_vars(SendDataTake)
    /\ WF_vars(SendDataBody)
    /\ WF_vars(ADC_ConversionTake)
    /\ WF_vars(ADC_ConversionBody)

NextSampling == NextTimer \/ SensarTask

SpecSampling == Init /\ [][NextSampling]_vars

(***************************************************************************)
(* Properties.                                                             *)
(***************************************************************************)
\* the outputs of the four actuation patterns
SafeActuation == LED_1 /\ ~LED_2 /\ ~LED_3 /\ ~GPIO_0

\* a LedsTask cycle has run with the enable flag set
LedsCycleOn == leds_en /\ leds_d # NoCycle

\* an ADC_Conversion cycle has completed
AdcCycleDone == adc_pc = "take" /\ adc_took > 0

\* the fall test on the normalised accelerations
\* accel = (raw / 1000 - 1.65) / 0.3, alert iff their sum exceeds 4;
\* in millivolts: (a - 1650) + (b - 1650) + (c - 1650) > 4 * 300
DocumentedFallTest(a, b, c) ==
    (a - 1650) + (b - 1650) + (c - 1650) > 4 * 300

\* C1: a LedsTask cycle that finds the sentinel distance 0 with activar
\* true leaves the SAFE actuation (only LED_1 on, GPIO_0 off) and no
\* status line is produced for that distance.
C1_SentinelFailsOpen ==
    (LedsCycleOn /\ leds_d = 0) =>
        (SafeActuation /\ StatusLines(leds_d) = << >>)

\* C2: a LedsTask cycle that finds 300 < d <= 500 with activar true leaves
\* LED_2 on, LED_3 off and GPIO_0 on.
C2_CautionBand ==
    (LedsCycleOn /\ leds_d > LowerThreshold /\ leds_d <= UpperThreshold) =>
        (LED_2 /\ ~LED_3 /\ GPIO_0)

\* C3: a LedsTask cycle that finds d <= 300 with activar true leaves LED_3
\* on and GPIO_0 on.
C3_DangerBand ==
    (LedsCycleOn /\ leds_d <= LowerThreshold) => (LED_3 /\ GPIO_0)

\* C4: after a LedsTask cycle that finds d > 500 with activar true, and
\* until the next cycle, only LED_1 is on, GPIO_0 is off and the buzzer is
\* silent.
C4_SafeBand ==
    (LedsCycleOn /\ leds_d > UpperThreshold) => (SafeActuation /\ ~buzzer)

C4_Witness ==
    /\ LedsCycleOn
    /\ leds_d > UpperThreshold
    /\ SafeActuation
    /\ distancia = leds_d

\* C5: after a LedsTask cycle that finds activar false every output is
\* off: the three LEDs, GPIO_0 and the buzzer.
C5_DisabledClearsOutputs ==
    (~leds_en) => (~LED_1 /\ ~LED_2 /\ ~LED_3 /\ ~GPIO_0 /\ ~buzzer)

\* C6: ADC_Conversion sends the alert in a cycle exactly when the sum of
\* the three normalised accelerations exceeds 4.
C6_AffineEquivalence ==
    AdcCycleDone =>
        ((uart_adc = << AlertLine >>)
            <=> DocumentedFallTest(value1, value2, value3))

\* C7: ADC_Conversion sends the alert in a cycle exactly when the
\* mathematical sum of the three readings is strictly greater than 1200:
\* none at exactly 1200, one for three maximal readings.
C7_StrictNoWrap ==
    AdcCycleDone =>
        /\ Len(uart_adc) <= 1
        /\ (uart_adc = << AlertLine >>)
              <=> (value1 + value2 + value3 > FallTrigger)

C7_Witness ==
    /\ AdcCycleDone
    /\ value1 + value2 + value3 = FallTrigger
    /\ uart_adc = << >>

\* C8: when ulTaskNotifyTake returns in ADC_Conversion with N >= 1 timer
\* signals pending, that one return consumes all N and leaves none
\* pending.
C8_Coalescing ==
    [][(adc_pc = "take" /\ adc_pc' = "body") =>
          (notify_adc >= 1 /\ adc_took' = notify_adc /\ notify_adc' = 0)]_vars

C8_Witness ==
    /\ AdcCycleDone
    /\ adc_took >= 2
    /\ notify_adc = 0

\* C9: a timer callback that runs while ADC_Conversion is in the middle of
\* a cycle leaves a signal pending, finishing the cycle keeps it, and a
\* pending signal is always eventually consumed by ulTaskNotifyTake.
C9_NoSignalLoss ==
    /\ [][/\ (adc_pc = "body" /\ notify_send' = notify_send + 1)
                => (notify_adc' = notify_adc + 1)
          /\ (adc_pc = "body" /\ adc_pc' = "take")
                => (notify_adc' = notify_adc)]_vars
    /\ (notify_adc > 0) ~> (notify_adc = 0)

C9_Witness ==
    /\ adc_pc = "body"
    /\ notify_adc >= 1

\* C10: once app_main has completed, ADC_Conversion and SendData are woken
\* again and again.
C10_SamplingRecurs ==
    /\ []<>(adc_pc = "body")
    /\ []<>(send_pc = "body")

NextBoot == BootStep \/ BootTimerFires \/ BootTaskTake

SpecBoot == BootInit /\ [][NextBoot]_vars

\* C11: whenever a timer has been started, every task its callback
\* notifies has already been created, and no callback has ever notified a
\* NULL handle.
C11_StartAfterCreate ==
    /\ \A t \in boot_run : Notified(boot_prog, t) \subseteq boot_handles
    /\ ~boot_null

C11_Witness ==
    /\ boot_prog = "guia2_ej4"
    /\ "A" \in boot_run
    /\ boot_pending["adc_conversion"] >= 1
    /\ boot_pending["send_data"] >= 1

(***************************************************************************)
(* The distance meter (guia2_ej1.c, guia2_ej2.c, guia2_ej3.c).  MeterSensar *)
(* is one iteration of the ranging task of guia2_ej1 and guia2_ej3;        *)
(* MeterDisplay is one iteration of the display task (LedsTask,            *)
(* OperarConDistancia, mostrarTask), which in guia2_ej2 also takes the     *)
(* measurement.  MeterLeds is the state of << LED_1, LED_2, LED_3 >> the   *)
(* iteration leaves when activar is true, MeterLcdWrites whether it calls  *)
(* LcdItsE0803Write, DistanceLine the characters escribirDistanciaEnPc     *)
(* sends.  TeclaActivar and TeclaHold are the two keys.  Each task of      *)
(* guia2_ej3 starts its iteration with ulTaskNotifyTake(pdTRUE,            *)
(* portMAX_DELAY): it runs only with a notification pending (m_notify) and *)
(* clears it.  FuncTimerSensar and FuncTimerMostrar, the callbacks of its   *)
(* timers A and B, give the notifications.  Its app_main initialises the   *)
(* two timers and never starts them (see SpecBoot), so in SpecMeter the    *)
(* two tasks stay blocked; MeterTimerStart is the start operation of the   *)
(* timer driver, under which SpecPaced runs the two tasks.                 *)
(***************************************************************************)
MeterTimerStart ==
    /\ m_prog = "guia2_ej3"
    /\ \E t \in {"A", "B"} \ m_run : m_run' = m_run \cup {t}
    /\ UNCHANGED << m_prog, m_activar, m_hold, m_distancia, m_leds, m_lcd,
                    m_uart, m_en, m_hd, m_d, m_wrote, m_byte, m_pc, m_bit,
                    m_notify >>
    /\ UNCHANGED << barrierVars, bcdVars >>
    /\ UNCHANGED examenAll

\* vTaskNotifyGiveFromISR(Sensar_task_handle, pdFALSE);
FuncTimerSensar ==
    /\ m_prog = "guia2_ej3"
    /\ "A" \in m_run
    /\ m_notify' = m_notify \cup {"Sensar"}
    /\ UNCHANGED << m_prog, m_activar, m_hold, m_distancia, m_leds, m_lcd,
                    m_uart, m_en, m_hd, m_d, m_wrote, m_byte, m_pc, m_bit,
                    m_run >>
    /\ UNCHANGED << barrierVars, bcdVars >>
    /\ UNCHANGED examenAll

\* vTaskNotifyGiveFromISR(Mostrar_task_handle, pdFALSE);
FuncTimerMostrar ==
    /\ m_prog = "guia2_ej3"
    /\ "B" \in m_run
    /\ m_notify' = m_notify \cup {"Mostrar"}
    /\ UNCHANGED << m_prog, m_activar, m_hold, m_distancia, m_leds, m_lcd,
                    m_uart, m_en, m_hd, m_d, m_wrote, m_byte, m_pc, m_bit,
                    m_run >>
    /\ UNCHANGED << barrierVars, bcdVars >>
    /\ UNCHANGED examenAll

MeterLeds(prog, d, prev) ==
    IF prog = "guia2_ej2"
      THEN IF d < 10 THEN << FALSE, FALSE, FALSE >>
           ELSE IF d >= 10 /\ d < 20 THEN << TRUE, FALSE, FALSE >>
           ELSE IF d >= 20 /\ d < 30 THEN << TRUE, TRUE, FALSE >>
           ELSE << TRUE, TRUE, TRUE >>
      ELSE IF d < 10 THEN << FALSE, FALSE, FALSE >>
           ELSE IF (d > 10) /\ (d < 20) THEN << TRUE, FALSE, FALSE >>
           ELSE IF (d > 20) /\ (d < 30) THEN << TRUE, TRUE, FALSE >>
           ELSE IF d > 30 THEN << TRUE, TRUE, TRUE >>
           ELSE prev

MeterLcdWrites(prog, hd) == IF prog = "guia2_ej2" THEN hd ELSE ~hd

Digit(k) == << "0", "1", "2", "3", "4", "5", "6", "7", "8", "9" >>[k + 1]

RECURSIVE UartItoa(_)
UartItoa(n) ==
    IF n < 10 THEN << Digit(n) >>
    ELSE UartItoa(n \div 10) \o << Digit(n % 10) >>

DistanceLine(d) ==
    << "d", "i", "s", "t", "a", "n", "c", "i", "a", " " >>
        \o UartItoa(d) \o << " ", "c", "m", "\r", "\n" >>

MeterSensar ==
    /\ m_prog # "guia2_ej2"
    /\ (m_prog = "guia2_ej3") => ("Sensar" \in m_notify)
    /\ m_notify' = m_notify \ {"Sensar"}
    /\ IF m_activar
         THEN \E d \in MeterDistances : m_distancia' = d
         ELSE UNCHANGED m_distancia
    /\ m_d' = IF m_pc # "idle" /\ m_distancia' # m_distancia
                 THEN Torn ELSE m_d
    /\ UNCHANGED << m_prog, m_activar, m_hold, m_leds, m_lcd, m_uart, m_en,
                    m_hd, m_wrote, m_byte, m_pc, m_bit, m_run >>
    /\ UNCHANGED << barrierVars, bcdVars >>
    /\ UNCHANGED examenAll

(***************************************************************************)
(* The display iteration.  In guia2_ej2 the task that displays is the one  *)
(* that measures, so nothing writes distancia while it runs and the        *)
(* iteration is one step (MeterOperar).  In guia2_ej1 and guia2_ej3        *)
(* distancia is a plain global that the ranging task, of the same          *)
(* priority, writes without a lock: every comparison, the LCD write and    *)
(* escribirDistanciaEnPc read it again, one step each.  Both operands of   *)
(* & are evaluated, here left to right; MeterTest is the comparison the    *)
(* read at pc makes in prog.                                               *)
(***************************************************************************)
MeterTest(prog, pc, d) ==
    IF prog = "guia2_ej1"
      THEN IF pc = "a1" THEN d < 20
           ELSE IF pc = "a2" THEN d > 10
           ELSE IF pc = "b1" THEN d < 30
           ELSE IF pc = "b2" THEN d > 20
           ELSE d > 30
      ELSE IF pc = "a1" THEN d > 10
           ELSE IF pc = "a2" THEN d < 20
           ELSE IF pc = "b1" THEN d > 20
           ELSE IF pc = "b2" THEN d < 30
           ELSE d > 30

MeterFrame ==
    /\ UNCHANGED << m_prog, m_activar, m_hold, m_byte, m_run >>
    /\ UNCHANGED << barrierVars, bcdVars >>
    /\ UNCHANGED examenAll

\* OperarConDistancia of guia2_ej2, which takes the measurement itself
MeterOperar ==
    /\ m_prog = "guia2_ej2"
    /\ m_pc = "idle"
    /\ \E r \in MeterDistances :
         LET d == IF m_activar THEN r ELSE m_distancia
         IN  /\ m_distancia' = d
             /\ m_d' = d
             /\ IF m_activar
                  THEN /\ m_leds' = MeterLeds(m_prog, d, m_leds)
                       /\ m_wrote' = MeterLcdWrites(m_prog, m_hold)
                       /\ m_lcd' = IF MeterLcdWrites(m_prog, m_hold)
                                     THEN d ELSE m_lcd
                  ELSE /\ m_leds' = << FALSE, FALSE, FALSE >>
                       /\ m_wrote' = FALSE
                       /\ m_lcd' = LcdBlank
    /\ m_uart' = << >>
    /\ m_en' = m_activar
    /\ m_hd' = m_hold
    /\ UNCHANGED << m_pc, m_bit, m_notify >>
    /\ MeterFrame

\* ulTaskNotifyTake(pdTRUE, portMAX_DELAY);   (guia2_ej3 only)
\* if(activar){ if(distancia < 10){ LedsOffAll(); } ... }
\* else { LcdItsE0803Off(); LedsOffAll(); }
MeterEnter ==
    /\ m_prog # "guia2_ej2"
    /\ m_pc = "idle"
    /\ (m_prog = "guia2_ej3") => ("Mostrar" \in m_notify)
    /\ m_notify' = m_notify \ {"Mostrar"}
    /\ m_en' = m_activar
    /\ m_d' = m_distancia
    /\ m_uart' = << >>
    /\ m_wrote' = FALSE
    /\ m_hd' = IF m_activar THEN FALSE ELSE m_hold
    /\ IF ~m_activar
         THEN /\ m_leds' = << FALSE, FALSE, FALSE >>
              /\ m_lcd' = LcdBlank
              /\ m_pc' = "idle"
       ELSE IF m_distancia < 10
         THEN /\ m_leds' = << FALSE, FALSE, FALSE >>
              /\ m_pc' = "lcd"
              /\ UNCHANGED m_lcd
       ELSE /\ m_pc' = "a1"
            /\ UNCHANGED << m_leds, m_lcd >>
    /\ UNCHANGED << m_distancia, m_bit >>
    /\ MeterFrame

\* left operand of the & of the second or the third band
MeterLeft ==
    /\ m_pc \in {"a1", "b1"}
    /\ m_bit' = MeterTest(m_prog, m_pc, m_distancia)
    /\ m_pc' = IF m_pc = "a1" THEN "a2" ELSE "b2"
    /\ UNCHANGED << m_distancia, m_leds, m_lcd, m_uart, m_en, m_hd, m_d,
                    m_wrote, m_notify >>
    /\ MeterFrame

\* right operand of the &, and the branch
MeterRight ==
    /\ m_pc \in {"a2", "b2"}
    /\ IF m_bit /\ MeterTest(m_prog, m_pc, m_distancia)
         THEN /\ m_leds' = IF m_pc = "a2" THEN << TRUE, FALSE, FALSE >>
                           ELSE << TRUE, TRUE, FALSE >>
              /\ m_pc' = "lcd"
         ELSE /\ UNCHANGED m_leds
              /\ m_pc' = IF m_pc = "a2" THEN "b1" ELSE "c"
    /\ m_bit' = FALSE
    /\ UNCHANGED << m_distancia, m_lcd, m_uart, m_en, m_hd, m_d, m_wrote,
                    m_notify >>
    /\ MeterFrame

\* else if(distancia > 30){...}; no branch otherwise
MeterLast ==
    /\ m_pc = "c"
    /\ m_leds' = IF MeterTest(m_prog, m_pc, m_distancia)
                   THEN << TRUE, TRUE, TRUE >>
                   ELSE m_leds
    /\ m_pc' = "lcd"
    /\ UNCHANGED << m_distancia, m_lcd, m_uart, m_en, m_hd, m_d, m_wrote,
                    m_bit, m_notify >>
    /\ MeterFrame

\* if(!hold){ LcdItsE0803Write(distancia); }
MeterLcd ==
    /\ m_pc = "lcd"
    /\ m_hd' = m_hold
    /\ m_wrote' = MeterLcdWrites(m_prog, m_hold)
    /\ m_lcd' = IF MeterLcdWrites(m_prog, m_hold) THEN m_distancia ELSE m_lcd
    /\ m_pc' = IF m_prog = "guia2_ej3" THEN "uart" ELSE "idle"
    /\ UNCHANGED << m_distancia, m_leds, m_uart, m_en, m_d, m_bit,
                    m_notify >>
    /\ MeterFrame

\* escribirDistanciaEnPc();   (guia2_ej3 only)
MeterUart ==
    /\ m_pc = "uart"
    /\ m_uart' = DistanceLine(m_distancia)
    /\ m_pc' = "idle"
    /\ UNCHANGED << m_distancia, m_leds, m_lcd, m_en, m_hd, m_d, m_wrote,
                    m_bit, m_notify >>
    /\ MeterFrame

MeterDisplay ==
    \/ MeterOperar
    \/ MeterEnter
    \/ MeterLeft
    \/ MeterRight
    \/ MeterLast
    \/ MeterLcd
    \/ MeterUart

TeclaActivar ==
    /\ m_activar' = ~m_activar
    /\ UNCHANGED << m_prog, m_hold, m_distancia, m_leds, m_lcd, m_uart, m_en,
                    m_hd, m_d, m_wrote, m_byte, m_pc, m_bit,
                    m_notify, m_run >>
    /\ UNCHANGED << barrierVars, bcdVars >>
    /\ UNCHANGED examenAll

TeclaHold ==
    /\ m_hold' = ~m_hold
    /\ UNCHANGED << m_prog, m_activar, m_distancia, m_leds, m_lcd, m_uart,
                    m_en, m_hd, m_d, m_wrote, m_byte, m_pc, m_bit,
                    m_notify, m_run >>
    /\ UNCHANGED << barrierVars, bcdVars >>
    /\ UNCHANGED examenAll

(***************************************************************************)
(* convertToBcdArray (guia1_ej4 and guia1_ej6, the same text).  BcdZero is *)
(* the first loop, BcdLoop the second, from iteration i on; bcd_number[k]  *)
(* of the source is entry k + 1 here.  The operator returns the value      *)
(* returned and the array as the call leaves it.                           *)
(***************************************************************************)
BcdZero(arr, digits) ==
    [k \in 1..BcdLen |-> IF k <= digits THEN 0 ELSE arr[k]]

RECURSIVE BcdLoop(_, _, _, _)
BcdLoop(arr, data, digits, i) ==
    IF i < digits
      THEN BcdLoop([arr EXCEPT ![digits - i] = data % 10],
                   data \div 10, digits, i + 1)
      ELSE << arr, data >>

\* convertToBcdArray without the final test of the remaining data
convertToBcdArray_NoRangeCheck(data, digits, arr) ==
    IF digits > 10
      THEN [ret |-> 0 - 1, bcd |-> arr]
      ELSE LET r == BcdLoop(BcdZero(arr, digits), data, digits, 0)
           IN  [ret |-> 0, bcd |-> r[1]]

convertToBcdArray(data, digits, arr) ==
    IF digits > 10
      THEN [ret |-> 0 - 1, bcd |-> arr]
      ELSE LET r == BcdLoop(BcdZero(arr, digits), data, digits, 0)
           IN  [ret |-> IF r[2] > 0 THEN 0 - 1 ELSE 0, bcd |-> r[1]]

ConvertCall ==
    /\ \E data \in BcdData, digits \in BcdDigits, f \in BcdFill :
         LET arr == [k \in 1..BcdLen |-> f]
             res == convertToBcdArray(data, digits, arr)
         IN  /\ bcd_data' = data
             /\ bcd_digits' = digits
             /\ bcd_before' = arr
             /\ bcd_number' = res.bcd
             /\ bcd_ret' = res.ret
    /\ bcd_called' = TRUE
    /\ UNCHANGED << meterVars, barrierVars >>
    /\ UNCHANGED examenAll

(***************************************************************************)
(* Serial command handlers.  TeclasOnHold is the receive callback          *)
(* guia2_ej3.c registers on UART_PC; it runs with the byte that arrived.   *)
(* In recuperatorio.c a byte arrives on UART_PC (RecByteArrives) and       *)
(* ControlBarrera reads it with UartReadByte; app_main of recuperatorio.c  *)
(* configures the port with func_p = NULL, so ControlBarrera steps appear  *)
(* only in SpecCommands, which runs the handler on the received bytes.     *)
(***************************************************************************)
TeclasOnHold ==
    /\ m_prog = "guia2_ej3"
    /\ \E tecla \in Bytes :
          /\ m_byte' = tecla
          /\ m_activar' = IF tecla = "O" THEN ~m_activar ELSE m_activar
          /\ m_hold' = IF tecla = "H" THEN ~m_hold ELSE m_hold
    /\ UNCHANGED << m_prog, m_distancia, m_leds, m_lcd, m_uart, m_en, m_hd,
                    m_d, m_wrote, m_pc, m_bit, m_notify, m_run >>
    /\ UNCHANGED << barrierVars, bcdVars >>
    /\ UNCHANGED examenAll

RecByteArrives ==
    /\ Len(rec_rx) < MaxRx
    /\ \E b \in Bytes : rec_rx' = Append(rec_rx, b)
    /\ UNCHANGED << rec_gpio1, rec_byte >>
    /\ UNCHANGED << meterVars, bcdVars >>
    /\ UNCHANGED examenAll

\* a handler whose switch closes the barrier on any other byte
ControlBarrera_DefaultCloses ==
    /\ rec_rx # << >>
    /\ rec_byte' = Head(rec_rx)
    /\ rec_rx' = Tail(rec_rx)
    /\ rec_gpio1' = (Head(rec_rx) = "O")
    /\ UNCHANGED << meterVars, bcdVars >>
    /\ UNCHANGED examenAll

ControlBarrera ==
    /\ rec_rx # << >>
    /\ rec_byte' = Head(rec_rx)
    /\ rec_rx' = Tail(rec_rx)
    /\ rec_gpio1' = IF Head(rec_rx) = "O" THEN TRUE
                    ELSE IF Head(rec_rx) = "C" THEN FALSE
                    ELSE rec_gpio1
    /\ UNCHANGED << meterVars, bcdVars >>
    /\ UNCHANGED examenAll

NextBuzzer == SensarTask \/ LedsTask \/ BuzzerTask

SpecBuzzer == Init /\ [][NextBuzzer]_vars

\* C12: a LedsTask cycle that classifies the distance as CAUTION comes with
\* exactly the line 'Precaucion, vehiculo cerca.', one that classifies it
\* as DANGER with exactly the line 'Peligro, vehiculo cerca.', and a SAFE
\* cycle with no line.
C12_StatusPerCycle ==
    LedsCycleOn =>
        uart_send = IF leds_d > UpperThreshold THEN << >>
                    ELSE IF leds_d > LowerThreshold THEN << CautionLine >>
                    ELSE << DangerLine >>

\* the latest LedsTask cycle took the CAUTION or the DANGER branch (the
\* distances 300 and 500 take neither)
AlarmTier ==
    /\ LedsCycleOn
    /\ \/ (leds_d < UpperThreshold) /\ (leds_d > LowerThreshold)
       \/ leds_d < LowerThreshold

\* C13: the buzzer is pulsed while the tier is CAUTION or DANGER: unless
\* the tier is left first, BuzzerOn is eventually called, and the line
\* GPIO_0 the buzzer is bound to (BuzzerInit(GPIO_0)) does not stay on but
\* is eventually switched off again.
C13_BuzzerPulsed ==
    /\ AlarmTier ~> (buzzer \/ ~AlarmTier)
    /\ (AlarmTier /\ GPIO_0) ~> (~GPIO_0 \/ ~AlarmTier)

\* C14: a BuzzerTask iteration that pulses for a DANGER distance
\* (d <= 300) blocks for strictly less time than an iteration does for any
\* CAUTION distance (300 < d <= 500).
C14_DangerFaster ==
    (bz_delay > 0 /\ bz_gpio /\ bz_d <= LowerThreshold) =>
        \A d \in Distances :
            (d > LowerThreshold /\ d <= UpperThreshold)
                => bz_delay < BuzzerDelay(TRUE, d)
\* C15: every ADC_Conversion wake whose three raw readings sum to more than
\* 1200 sends exactly one alert line, whether or not the wake before it
\* sent one, so K consecutive qualifying wakes send K alerts; a wake whose
\* readings do not qualify sends none.
C15_AlertPerWake ==
    AdcCycleDone =>
        /\ adc_alerts = adc_streak
        /\ uart_adc = IF value1 + value2 + value3 > FallTrigger
                        THEN << AlertLine >> ELSE << >>

C15_Witness ==
    /\ AdcCycleDone
    /\ value1 = 2450 /\ value2 = 2450 /\ value3 = 2450
    /\ adc_streak = MaxStreak
    /\ adc_alerts = MaxStreak
    /\ uart_adc = << AlertLine >>
\* C16: distancia is written only by SensarTask, and a task other than
\* LedsTask does not read it: what a SendData cycle sends is the same
\* whatever value distancia holds.
C16_DistanciaOwnership ==
    [][/\ (distancia' # distancia) => SensarTask
       /\ (send_pc = "body" /\ send_pc' = "take")
             => \A d \in Distances : uart_send' = StatusLines(d)]_vars
NextRanging == SensarTask \/ ToggleActivar \/ MedirTask \/ RecToggleActivar

SpecRanging == Init /\ [][NextRanging]_vars

\* C17: the ranging task of each program keeps running; a step changes the
\* distance sample only while that program's activar is true, the new
\* value is one the driver returns, and the step changes nothing else.
C17_RangingGate ==
    /\ [](ENABLED SensarTask /\ ENABLED MedirTask)
    /\ [][/\ (distancia' # distancia) =>
                /\ activar
                /\ distancia' \in Distances
                /\ UNCHANGED << activar, buzzer, alarmVars, samplingVars,
                                otherVars >>
          /\ (distancia_actual' # distancia_actual) =>
                /\ rec_activar
                /\ distancia_actual' \in RecDistances
                /\ UNCHANGED << rec_activar, activar, distancia, buzzer,
                                alarmVars, samplingVars, buzzerVars,
                                bootVars, adcHist >>]_vars

C17_Witness ==
    /\ ~activar
    /\ distancia = 400
    /\ ~rec_activar
    /\ distancia_actual = 50
\* C18: the LEDs and GPIO_0 a LedsTask cycle leaves are determined by the
\* activar and distancia it read alone: the same whatever the outputs were
\* before the cycle.
C18_Memoryless ==
    (leds_d # NoCycle) =>
        \A l1 \in BOOLEAN, l2 \in BOOLEAN, l3 \in BOOLEAN, g \in BOOLEAN :
            outputs = LedsOutputs(leds_en, leds_d, << l1, l2, l3, g >>)
\* the three latest LedsTask cycles read activar true and the distances
\* d1, d2, d3 in that order
LastThreeCycles(d1, d2, d3) ==
    /\ Len(leds_prev) = 2
    /\ leds_prev[1][1] /\ leds_prev[1][2] = d1
    /\ leds_prev[2][1] /\ leds_prev[2][2] = d2
    /\ leds_en /\ leds_d = d3

\* C19: when three successive LedsTask cycles read activar true and the
\* distances 600, 400 and 200, the first leaves the SAFE actuation (only
\* LED_1), the second the CAUTION actuation (LED_1, LED_2, GPIO_0) and the
\* third the DANGER actuation (all LEDs and GPIO_0).
C19_TierSequence ==
    LastThreeCycles(600, 400, 200) =>
        /\ leds_prev[1][3] = << TRUE, FALSE, FALSE, FALSE >>
        /\ leds_prev[2][3] = << TRUE, TRUE, FALSE, TRUE >>
        /\ outputs = << TRUE, TRUE, TRUE, TRUE >>

C19_Witness ==
    /\ LastThreeCycles(600, 400, 200)
    /\ outputs = << TRUE, TRUE, TRUE, TRUE >>
    /\ leds_prev[1][3][1] /\ ~leds_prev[1][3][4]
\* C20: in every reachable state of the running program a step is possible
\* that leaves activar with the opposite value.
C20_ToggleAvailable == ENABLED (NextAppMain /\ activar' # activar)
\* C21: the timer callback can run whatever the tasks are doing, and a
\* step that signals adds exactly one pending wake for SendData and one
\* for ADC_Conversion and changes nothing else: not distancia, activar,
\* value1..value3, the LEDs, GPIO_0 or the UART output.
C21_CallbackOnlySignals ==
    /\ []((timer_started /\ notify_send < MaxNotify /\ notify_adc < MaxNotify)
            => ENABLED FuncTimerSendData)
    /\ [][(notify_send' > notify_send \/ notify_adc' > notify_adc) =>
             /\ notify_send' = notify_send + 1
             /\ notify_adc' = notify_adc + 1
             /\ UNCHANGED << activar, distancia, buzzer, value1, value2,
                             value3, timer_started, send_pc, adc_pc,
                             adc_took, uart_send, uart_adc, alarmVars,
                             otherVars >>]_vars

C21_Witness ==
    /\ send_pc = "body"
    /\ adc_pc = "body"
    /\ notify_send >= 1
    /\ notify_adc >= 1

\* C22: a step of ADC_Conversion changes neither distancia, activar, the
\* LEDs, GPIO_0 nor the buzzer; value1..value3 and the alert line change
\* only in the step that ends an ADC_Conversion cycle.
C22_SamplingFrame ==
    [][/\ (adc_pc' # adc_pc) =>
             UNCHANGED << distancia, activar, LED_1, LED_2, LED_3, GPIO_0,
                          buzzer >>
       /\ (<< value1, value2, value3, uart_adc >>' #
               << value1, value2, value3, uart_adc >>)
             => (adc_pc = "body" /\ adc_pc' = "take")]_vars

C22_Witness ==
    /\ AdcCycleDone
    /\ value1 = 65535
    /\ uart_adc = << AlertLine >>
    /\ distancia = 0 /\ activar
    /\ ~LED_1 /\ ~LED_2 /\ ~LED_3 /\ ~GPIO_0 /\ ~buzzer
CommandsInit ==
    /\ Globals
    /\ m_prog = "guia2_ej3"
    /\ boot_prog = "examen"
    /\ boot_pc = Len(AppMain("examen")) + 1
    /\ boot_handles = Created("examen")
    /\ boot_run = {}
    /\ boot_pending = [h \in Created("examen") |-> 0]
    /\ boot_null = FALSE

NextCommands == TeclasOnHold \/ RecByteArrives \/ ControlBarrera

SpecCommands == CommandsInit /\ [][NextCommands]_vars

\* C23: a TeclasOnHold call that reads a byte other than 'O' and 'H'
\* changes neither activar nor hold, a ControlBarrera call that reads a
\* byte other than 'O' and 'C' leaves GPIO_1 as it was, and neither
\* changes anything else than consuming the byte.
C23_UnknownByteIgnored ==
    [][/\ (TeclasOnHold /\ m_byte' \notin {"O", "H"}) =>
             UNCHANGED << m_activar, m_hold, m_distancia, m_leds, m_lcd,
                          m_uart, barrierVars, bcdVars, examenAll >>
       /\ (ControlBarrera /\ rec_byte' \notin {"O", "C"}) =>
             UNCHANGED << rec_gpio1, meterVars, bcdVars, examenAll >>]_vars

C23_Witness ==
    /\ m_byte = "X"
    /\ ~m_activar
    /\ m_hold
    /\ rec_byte = "X"
    /\ rec_gpio1
MeterInit ==
    /\ Globals
    /\ m_prog \in MeterPrograms
    /\ boot_prog = "examen"
    /\ boot_pc = Len(AppMain("examen")) + 1
    /\ boot_handles = Created("examen")
    /\ boot_run = {}
    /\ boot_pending = [h \in Created("examen") |-> 0]
    /\ boot_null = FALSE

\* the three images as their app_main leaves them.  MeterUart is a step of
\* mostrarTask alone, which never passes its ulTaskNotifyTake; it runs in
\* SpecPaced
NextMeter ==
    \/ MeterSensar
    \/ MeterOperar
    \/ MeterEnter
    \/ MeterLeft
    \/ MeterRight
    \/ MeterLast
    \/ MeterLcd
    \/ TeclaActivar
    \/ TeclaHold
    \/ TeclasOnHold

SpecMeter == MeterInit /\ [][NextMeter]_vars

\* the latest display cycle of the distance meter is complete, ran with
\* activar true and read the same distance m_d at each of its reads
MeterCycleOn == m_d \notin {NoCycle, Torn} /\ m_en /\ m_pc = "idle"

\* the LEDs the documentation of the distance meter gives for distance d
DocumentedLeds(d) ==
    IF d < 10 THEN << FALSE, FALSE, FALSE >>
    ELSE IF d < 20 THEN << TRUE, FALSE, FALSE >>
    ELSE IF d < 30 THEN << TRUE, TRUE, FALSE >>
    ELSE << TRUE, TRUE, TRUE >>

\* C24: after a display cycle that ran with activar true and observed the
\* distance d, the LEDs are all off if d < 10, only LED_1 if 10 <= d < 20,
\* LED_1 and LED_2 if 20 <= d < 30, and all three if d >= 30, whatever
\* they were before.
C24_DocumentedBands == MeterCycleOn => (m_leds = DocumentedLeds(m_d))
\* C25: a display cycle that ran with activar true wrote the current
\* distance to the LCD exactly when hold was false; with hold true it did
\* not write the LCD.
C25_HoldKeepsLcd ==
    MeterCycleOn =>
        /\ m_wrote <=> ~m_hd
        /\ (~m_hd) => (m_lcd = m_d)

\* C26: a display cycle that runs with activar and hold true leaves LED_1,
\* LED_2 and LED_3 as they were, even when the distance has moved to
\* another band.
C26_HoldFreezesLeds ==
    [][(MeterDisplay /\ m_activar /\ m_hold) => (m_leds' = m_leds)]_vars

\* guia2_ej3 with its two timers under the timer driver's start operation
PacedInit ==
    /\ MeterInit
    /\ m_prog = "guia2_ej3"

NextPaced ==
    \/ MeterTimerStart
    \/ FuncTimerSensar
    \/ FuncTimerMostrar
    \/ MeterSensar
    \/ MeterEnter
    \/ MeterLeft
    \/ MeterRight
    \/ MeterLast
    \/ MeterLcd
    \/ MeterUart
    \/ TeclaActivar
    \/ TeclaHold

SpecPaced == PacedInit /\ [][NextPaced]_vars

\* a line of the documented serial format: 3 ASCII digits, one space,
\* 'cm', carriage return, line feed
DocumentedLine(l) ==
    /\ Len(l) = 8
    /\ \A i \in 1..3 : \E k \in 0..9 : l[i] = Digit(k)
    /\ SubSeq(l, 4, 8) = << " ", "c", "m", "\r", "\n" >>

\* C29: the line guia2_ej3 sends to the PC in a display cycle with activar
\* true is made of exactly 3 ASCII digits, one space, 'cm' and \r\n, for
\* every distance the sensor reports.
C29_SerialFormat ==
    (m_prog = "guia2_ej3" /\ MeterCycleOn) => DocumentedLine(m_uart)
\* recuperatorio.c as app_main wires it: bytes arrive on UART_PC, whose
\* configuration has func_p = NULL, and MedirTask runs
NextBarrier == RecByteArrives \/ MedirTask

SpecBarrier == Init /\ [][NextBarrier]_vars

FairBarrier == SpecBarrier /\ WF_vars(MedirTask)

\* C27: once the byte 'O' has arrived on UART_PC the barrier output GPIO_1
\* is eventually on, and once 'C' has arrived it is eventually off.
C27_BarrierFollowsCommand ==
    /\ (\E i \in 1..Len(rec_rx) : rec_rx[i] = "O") ~> rec_gpio1
    /\ (\E i \in 1..Len(rec_rx) : rec_rx[i] = "C") ~> ~rec_gpio1
NextBcd == ConvertCall

SpecBcd == Init /\ [][NextBcd]_vars

RECURSIVE Pow10(_)
Pow10(n) == IF n = 0 THEN 1 ELSE 10 * Pow10(n - 1)

\* data < 10^digits; 10^10 exceeds every uint32_t
FitsDigits(data, digits) == digits >= 10 \/ data < Pow10(digits)

\* the number whose decimal digits, most significant first, are arr[1..n]
RECURSIVE BcdValue(_, _)
BcdValue(arr, n) == IF n = 0 THEN 0 ELSE 10 * BcdValue(arr, n - 1) + arr[n]

\* C28: convertToBcdArray returns 0 exactly when digits <= 10 and
\* data < 10^digits, and then bcd_number[0..digits-1] are the decimal
\* digits of data, most significant first and zero-padded; otherwise it
\* returns -1, and with digits > 10 the array is left as it was.
C28_BcdReference ==
    bcd_called =>
        /\ bcd_ret \in {0, 0 - 1}
        /\ (bcd_ret = 0)
              <=> (bcd_digits <= 10 /\ FitsDigits(bcd_data, bcd_digits))
        /\ (bcd_ret = 0) =>
              /\ \A k \in 1..bcd_digits : bcd_number[k] \in 0..9
              /\ BcdValue(bcd_number, bcd_digits) = bcd_data
        /\ (bcd_digits > 10) => (bcd_number = bcd_before)

C28_Witness ==
    /\ bcd_called
    /\ bcd_ret = 0
    /\ bcd_data = 123
    /\ bcd_digits = 4
    /\ bcd_before[1] = 255
    /\ bcd_number[1] = 0 /\ bcd_number[2] = 1
    /\ bcd_number[3] = 2 /\ bcd_number[4] = 3
    /\ bcd_number[5] = 255
\* the timer-driven tasks of examen.c together with the external toggle of
\* activar
NextStatus == NextTimer \/ ToggleActivar

SpecStatus == Init /\ [][NextStatus]_vars

\* C30: a SendData cycle that runs while activar is false sends no status
\* line, whatever distancia holds.
C30_DisabledIsSilent ==
    [][(send_pc = "body" /\ send_pc' = "take" /\ ~activar)
          => (uart_send' = << >>)]_vars

(***************************************************************************)
(* LedsTask of examen.c, one read of distancia per step.  distancia is a   *)
(* plain (non-volatile) float written by SensarTask, a task of the same    *)
(* priority that time slicing can run between any two of the four          *)
(* comparisons of a cycle; each comparison reads the variable again.  The  *)
(* two operands of & are both evaluated, here left to right.               *)
(***************************************************************************)
SetOutputs(o) ==
    /\ LED_1' = o[1]
    /\ LED_2' = o[2]
    /\ LED_3' = o[3]
    /\ GPIO_0' = o[4]

RaceFrame ==
    /\ UNCHANGED << activar, distancia, buzzer >>
    /\ UNCHANGED << leds_en, leds_d, leds_prev >>
    /\ UNCHANGED samplingVars
    /\ UNCHANGED << buzzerVars, recVars, bootVars, adcHist, meterVars,
                    barrierVars, bcdVars, weighVars, keyVars >>

\* if(activar){ if(distancia > 500){...} ... } else { LedsOffAll(); }
LedsTaskEnter ==
    /\ race_pc = "idle"
    /\ race_en' = activar
    /\ race_start' = outputs
    /\ race_held' = {distancia}
    /\ UNCHANGED race_lt
    /\ IF ~activar
         THEN /\ SetOutputs(<< FALSE, FALSE, FALSE, GPIO_0 >>)
              /\ race_pc' = "idle"
              /\ race_done' = TRUE
       ELSE IF distancia > UpperThreshold
         THEN /\ SetOutputs(<< TRUE, FALSE, FALSE, FALSE >>)
              /\ race_pc' = "idle"
              /\ race_done' = TRUE
       ELSE /\ UNCHANGED outputs
            /\ race_pc' = "lt500"
            /\ race_done' = FALSE
    /\ RaceFrame

\* left operand of (distancia<500) & (distancia>300)
LedsTaskLt500 ==
    /\ race_pc = "lt500"
    /\ race_lt' = (distancia < UpperThreshold)
    /\ race_pc' = "gt300"
    /\ UNCHANGED outputs
    /\ UNCHANGED << race_en, race_start, race_held, race_done >>
    /\ RaceFrame

\* right operand of (distancia<500) & (distancia>300), and the branch
LedsTaskGt300 ==
    /\ race_pc = "gt300"
    /\ IF race_lt /\ (distancia > LowerThreshold)
         THEN /\ SetOutputs(<< TRUE, TRUE, FALSE, TRUE >>)
              /\ race_pc' = "idle"
              /\ race_done' = TRUE
         ELSE /\ UNCHANGED outputs
              /\ race_pc' = "lt300"
              /\ UNCHANGED race_done
    /\ UNCHANGED << race_lt, race_en, race_start, race_held >>
    /\ RaceFrame

\* else if(distancia<300){...}; no branch otherwise
LedsTaskLt300 ==
    /\ race_pc = "lt300"
    /\ IF distancia < LowerThreshold
         THEN SetOutputs(<< TRUE, TRUE, TRUE, TRUE >>)
         ELSE UNCHANGED outputs
    /\ race_pc' = "idle"
    /\ race_done' = TRUE
    /\ UNCHANGED << race_lt, race_en, race_start, race_held >>
    /\ RaceFrame

LedsTaskStep ==
    LedsTaskEnter \/ LedsTaskLt500 \/ LedsTaskGt300 \/ LedsTaskLt300

NextRace == SensarTask \/ LedsTaskStep

SpecRace == Init /\ [][NextRace]_vars

\* C31: at the end of every LedsTask cycle of examen.c the outputs are the
\* ones LedsTask gives to one single value that distancia held during the
\* cycle, whatever SensarTask wrote between the cycle's comparisons.
C31_OneConsistentValue ==
    (race_done /\ race_pc = "idle")
        => \E v \in race_held :
               outputs = LedsOutputs(race_en, v, race_start)

(***************************************************************************)
(* LedsTask of recuperatorio.c.  MedirTask has the higher priority (4      *)
(* against 3) and preempts it whenever its delay expires, so each read of  *)
(* distancia_actual is a step of its own: the range test, the velocity     *)
(* computation and the final distancia_anterior = distancia_actual.        *)
(*                                                                         *)
(* Velocidad is (distancia_anterior - distancia_actual)/tiempo: the two    *)
(* uint16_t operands are promoted to int, so the difference keeps its      *)
(* sign, and the float quotient by tiempo = 0.10 is 10 times the           *)
(* difference exactly for every difference of two uint16_t values.         *)
(* velocidad_max and the weights sent do not decide any of the properties  *)
(* below and are left out of the state; rec_div records the divisor of     *)
(* the two averages.                                                       *)
(***************************************************************************)
Velocidad(anterior, actual) == 10 * (anterior - actual)

\* << LED_1, LED_2, LED_3 >> after the branches on velocidad
SpeedLeds(v, prev) ==
    IF v > SpeedLimit
      THEN << FALSE, FALSE, TRUE >>
    ELSE IF (v < SpeedLimit) /\ (v > 0)
      THEN << FALSE, TRUE, FALSE >>
    ELSE IF v = 0
      THEN << TRUE, FALSE, FALSE >>
    ELSE prev

WeighFrame ==
    /\ UNCHANGED << activar, distancia, buzzer >>
    /\ UNCHANGED alarmVars
    /\ UNCHANGED samplingVars
    /\ UNCHANGED << buzzerVars, recVars, bootVars, adcHist, meterVars,
                    barrierVars, bcdVars, raceVars, keyVars >>

\* if(activar){ if(distancia_actual < 1000){...} else { LedsOffAll(); } }
RecLedsCheck ==
    /\ rec_pc = "check"
    /\ rec_used' = NoCycle
    /\ rec_vel' = 0
    /\ rec_weighed' = FALSE
    /\ IF rec_activar /\ distancia_actual < RangeLimit
         THEN /\ rec_pc' = "compute"
              /\ UNCHANGED rec_leds
         ELSE /\ rec_pc' = "store"
              /\ rec_leds' = IF rec_activar
                               THEN << FALSE, FALSE, FALSE >>
                               ELSE rec_leds
    /\ UNCHANGED << distancia_anterior, cont_muestras, rec_div >>
    /\ WeighFrame

\* the velocity, the warning LEDs and, for a stopped vehicle, the weight
RecLedsCompute ==
    /\ rec_pc = "compute"
    /\ LET velocidad == Velocidad(distancia_anterior, distancia_actual)
       IN  /\ rec_used' = distancia_actual
           /\ rec_vel' = velocidad
           /\ rec_leds' = SpeedLeds(velocidad, rec_leds)
           /\ rec_weighed' = (~(velocidad > SpeedLimit)
                              /\ ~((velocidad < SpeedLimit) /\ (velocidad > 0))
                              /\ velocidad = 0)
           /\ IF rec_weighed' /\ cont_muestras < MaxMuestras
                THEN /\ rec_div' = cont_muestras
                     /\ cont_muestras' = (cont_muestras + 1) % 256
                ELSE UNCHANGED << rec_div, cont_muestras >>
    /\ rec_pc' = "store"
    /\ UNCHANGED distancia_anterior
    /\ WeighFrame

\* distancia_anterior = distancia_actual;
RecLedsStore ==
    /\ rec_pc = "store"
    /\ distancia_anterior' = distancia_actual
    /\ rec_pc' = "check"
    /\ UNCHANGED << cont_muestras, rec_leds, rec_used, rec_vel, rec_div,
                    rec_weighed >>
    /\ WeighFrame

RecLedsTask == RecLedsCheck \/ RecLedsCompute \/ RecLedsStore

NextWeigh == MedirTask \/ RecLedsTask

SpecWeigh == Init /\ [][NextWeigh]_vars

\* C32: at the start of every LedsTask cycle of recuperatorio.c,
\* distancia_anterior is the distancia_actual value the previous cycle used
\* in its velocity computation, whenever MedirTask ran in between.
C32_ConsecutiveSamples ==
    (rec_pc = "check" /\ rec_used # NoCycle)
        => (distancia_anterior = rec_used)

\* C33: after every LedsTask cycle of recuperatorio.c that computed a
\* velocity (activar true, distancia_actual < 1000), exactly one of LED_1,
\* LED_2, LED_3 is on, decided by that velocity alone (LED_3 above 800,
\* LED_1 for a stopped vehicle, LED_2 for a moving one otherwise), and the
\* cycle reported the weight only if the velocity was 0.
C33_SpeedWarning ==
    (rec_pc = "check" /\ rec_used # NoCycle)
        => /\ rec_leds = IF rec_vel > SpeedLimit
                           THEN << FALSE, FALSE, TRUE >>
                         ELSE IF rec_vel = 0
                           THEN << TRUE, FALSE, FALSE >>
                         ELSE << FALSE, TRUE, FALSE >>
           /\ rec_weighed => (rec_vel = 0)

\* C34: every division peso_galga/cont_muestras of LedsTask has
\* cont_muestras >= 1, and cont_muestras never exceeds 50.
C34_NonZeroCount ==
    /\ (rec_div # NoCycle) => (rec_div >= 1)
    /\ cont_muestras <= MaxMuestras

(***************************************************************************)
(* The keys of guia2_ej1.c.  KeyPress and KeyRelease are the user;         *)
(* SwitchesRead is the mask of the keys that are down at the time of the   *)
(* call; TeclasTask is one iteration of the polling loop, which runs every *)
(* 10 ms whether or not a key changed.                                     *)
(***************************************************************************)
SWITCH_1 == 1
SWITCH_2 == 2

SwitchesRead ==
    (IF key1 THEN SWITCH_1 ELSE 0) + (IF key2 THEN SWITCH_2 ELSE 0)

KeyFrame ==
    /\ UNCHANGED << barrierVars, bcdVars >>
    /\ UNCHANGED << activar, distancia, buzzer >>
    /\ UNCHANGED alarmVars
    /\ UNCHANGED samplingVars
    /\ UNCHANGED << buzzerVars, recVars, bootVars, adcHist, raceVars,
                    weighVars >>

KeyPress ==
    /\ \/ /\ ~key1
          /\ key1' = TRUE
          /\ key_flips1' = 0
          /\ UNCHANGED << key2, key_flips2 >>
       \/ /\ ~key2
          /\ key2' = TRUE
          /\ key_flips2' = 0
          /\ UNCHANGED << key1, key_flips1 >>
    /\ UNCHANGED meterVars
    /\ KeyFrame

KeyRelease ==
    /\ \/ /\ key1
          /\ key1' = FALSE
          /\ UNCHANGED key2
       \/ /\ key2
          /\ key2' = FALSE
          /\ UNCHANGED key1
    /\ UNCHANGED << key_flips1, key_flips2 >>
    /\ UNCHANGED meterVars
    /\ KeyFrame

TeclasTask ==
    /\ m_prog = "guia2_ej1"
    /\ LET teclas == SwitchesRead
       IN  IF teclas = SWITCH_1
             THEN /\ m_activar' = ~m_activar
                  /\ key_flips1' = IF key_flips1 < MaxFlips
                                     THEN key_flips1 + 1
                                     ELSE key_flips1
                  /\ UNCHANGED << m_hold, key_flips2 >>
           ELSE IF teclas = SWITCH_2
             THEN /\ m_hold' = ~m_hold
                  /\ key_flips2' = IF key_flips2 < MaxFlips
                                     THEN key_flips2 + 1
                                     ELSE key_flips2
                  /\ UNCHANGED << m_activar, key_flips1 >>
           ELSE UNCHANGED << m_activar, m_hold, key_flips1, key_flips2 >>
    /\ UNCHANGED << key1, key2 >>
    /\ UNCHANGED << m_prog, m_distancia, m_leds, m_lcd, m_uart, m_en, m_hd,
                    m_d, m_wrote, m_byte, m_pc, m_bit, m_notify,
                    m_run >>
    /\ KeyFrame

NextKeys == KeyPress \/ KeyRelease \/ TeclasTask

SpecKeys == Init /\ [][NextKeys]_vars

\* C35: within one press of TEC1 activar changes at most once, and within
\* one press of TEC2 hold changes at most once, however many polls of
\* TeclasTask the press spans.
C35_OnePressOneToggle ==
    /\ key_flips1 <= 1
    /\ key_flips2 <= 1
====
